---- MODULE Spec2Model ----
(***************************************************************************)
(* Model of expense_tracker.py: a CSV-backed expense ledger.               *)
(*                                                                         *)
(* Text is modelled as a sequence of one-character strings, so that the    *)
(* conversions of the program (str/int, isoformat/strptime, str/Decimal,   *)
(* strip) are computed and not assumed.  The csv module itself (quoting,   *)
(* line splitting) is library code: a file is modelled at the level the    *)
(* program sees it through DictReader/DictWriter: how much of the header   *)
(* line is there ("none", "part", "full") and a sequence of rows, each row *)
(* a record of six cells.  A cell the line of a row does not reach is      *)
(* Missing (DictReader gives it the value None).                           *)
(*                                                                         *)
(* Domain of the model: the only whitespace character is " ", digits are   *)
(* ASCII, "_" does not occur in numbers, and amounts are finite decimals   *)
(* (the special values NaN and Infinity are outside the domain).           *)
(***************************************************************************)
EXTENDS Integers, Sequences, FiniteSets, TLC

VARIABLES file, out, deleted, recs, pc, prev

vars == <<file, out, deleted, recs, pc, prev>>

----------------------------------------------------------------------------
(* Bounds of the model *)

MaxRecords == 3

MaxId == 4

MaxRows == 3

MaxLimit == 2

----------------------------------------------------------------------------
(* Characters and text *)

Digits == <<"0", "1", "2", "3", "4", "5", "6", "7", "8", "9">>

DigitSet == {Digits[i] : i \in 1..10}

IsDigit(c) == c \in DigitSet

DigitVal(c) ==
    CASE c = "0" -> 0 [] c = "1" -> 1 [] c = "2" -> 2 [] c = "3" -> 3 [] c = "4" -> 4
      [] c = "5" -> 5 [] c = "6" -> 6 [] c = "7" -> 7 [] c = "8" -> 8 [] c = "9" -> 9

DigitChar(d) == Digits[d + 1]

IsSpace(c) == c = " "

RECURSIVE LStrip(_)
LStrip(s) == IF s # <<>> /\ IsSpace(Head(s)) THEN LStrip(Tail(s)) ELSE s

RECURSIVE RStrip(_)
RStrip(s) ==
    IF s # <<>> /\ IsSpace(s[Len(s)]) THEN RStrip(SubSeq(s, 1, Len(s) - 1)) ELSE s

\* str.strip()
Strip(s) == RStrip(LStrip(s))

AllDigits(s) == \A i \in 1..Len(s) : IsDigit(s[i])

\* value of a sequence of digit characters (small numbers only: ids, dates)
RECURSIVE DigitsVal(_)
DigitsVal(s) ==
    IF s = <<>> THEN 0 ELSE 10 * DigitsVal(SubSeq(s, 1, Len(s) - 1)) + DigitVal(s[Len(s)])

RECURSIVE NatToStr(_)
NatToStr(n) ==
    IF n < 10 THEN <<DigitChar(n)>> ELSE NatToStr(n \div 10) \o <<DigitChar(n % 10)>>

\* str(n) for an int n
IntToStr(n) == IF n < 0 THEN <<"-">> \o NatToStr(-n) ELSE NatToStr(n)

HasSign(t) == t # <<>> /\ Head(t) \in {"-", "+"}

IsNegative(t) == t # <<>> /\ Head(t) = "-"

Unsigned(t) == IF HasSign(t) THEN Tail(t) ELSE t

IntParseSigned(neg, u) ==
    IF u # <<>> /\ AllDigits(u)
    THEN [ok |-> TRUE, val |-> IF neg THEN -DigitsVal(u) ELSE DigitsVal(u)]
    ELSE [ok |-> FALSE, val |-> 0]

IntParseStripped(t) == IntParseSigned(IsNegative(t), Unsigned(t))

\* int(s): surrounding whitespace, an optional sign, at least one digit;
\* ok = FALSE stands for ValueError
IntParse(s) == IntParseStripped(Strip(s))

\* s.split(c)
\* the first position from i on where s holds c, Len(s) + 1 when there is none
RECURSIVE Find(_, _, _)
Find(s, c, i) == IF i > Len(s) \/ s[i] = c THEN i ELSE Find(s, c, i + 1)

RECURSIVE SplitAt(_, _, _)
SplitAt(s, c, i) ==
    IF i > Len(s) THEN <<s>>
    ELSE <<SubSeq(s, 1, i - 1)>>
             \o SplitAt(SubSeq(s, i + 1, Len(s)), c, Find(SubSeq(s, i + 1, Len(s)), c, 1))

Split(s, c) == SplitAt(s, c, Find(s, c, 1))

----------------------------------------------------------------------------
(* Dates: <<>> is None, <<y, m, d>> a datetime.date *)

NoDate == <<>>

\* date.min
DateMin == <<1, 1, 1>>

IsLeap(y) == y % 4 = 0 /\ (y % 100 # 0 \/ y % 400 = 0)

DaysInMonth(y, m) ==
    IF m = 2 THEN (IF IsLeap(y) THEN 29 ELSE 28)
    ELSE IF m \in {4, 6, 9, 11} THEN 30 ELSE 31

Pad(s, n) == [i \in 1..(n - Len(s)) |-> "0"] \o s

\* a date written without zero padding
IsoFormat_unpadded(d) ==
    NatToStr(d[1]) \o <<"-">> \o NatToStr(d[2]) \o <<"-">> \o NatToStr(d[3])

\* date.isoformat()
IsoFormat(d) ==
    Pad(NatToStr(d[1]), 4) \o <<"-">> \o Pad(NatToStr(d[2]), 2) \o <<"-">>
        \o Pad(NatToStr(d[3]), 2)

\* the digits of a day field: %d also takes a space and one digit
DayText(p) == IF Len(p) = 2 /\ p[1] = " " THEN Tail(p) ELSE p

\* the date of the three numbers read, when there is such a day
StrpYmd(y, m, d) ==
    IF y >= 1 /\ m >= 1 /\ m <= 12 /\ d >= 1 /\ d <= DaysInMonth(y, m)
    THEN [ok |-> TRUE, val |-> <<y, m, d>>]
    ELSE [ok |-> FALSE, val |-> NoDate]

StrpFields(ys, ms, ds) ==
    IF /\ Len(ys) = 4 /\ AllDigits(ys)
       /\ Len(ms) \in {1, 2} /\ AllDigits(ms)
       /\ Len(ds) \in {1, 2} /\ AllDigits(ds)
    THEN StrpYmd(DigitsVal(ys), DigitsVal(ms), DigitsVal(ds))
    ELSE [ok |-> FALSE, val |-> NoDate]

StrpParts(p) ==
    IF Len(p) = 3 THEN StrpFields(p[1], p[2], DayText(p[3]))
    ELSE [ok |-> FALSE, val |-> NoDate]

\* datetime.strptime(s, "%Y-%m-%d").date(); ok = FALSE stands for ValueError.
\* %Y is four digits, %m is 1[0-2]|0[1-9]|[1-9], %d is 3[01]|[12]\d|0[1-9]|[1-9]| [1-9]
StrpDate(s) == StrpParts(Split(s, "-"))

\* d1 < d2 on dates
DateLess(d1, d2) ==
    \/ d1[1] < d2[1]
    \/ d1[1] = d2[1] /\ d1[2] < d2[2]
    \/ d1[1] = d2[1] /\ d1[2] = d2[2] /\ d1[3] < d2[3]

----------------------------------------------------------------------------
(* decimal.Decimal: [sign, int, exp] is (-1)^sign * int * 10^exp, the        *)
(* coefficient int a sequence of digits 0..9 without leading zeros.          *)

\* decimal.getcontext().prec, the precision of the default context
Prec == 28

Zeros(n) == [i \in 1..n |-> 0]

RECURSIVE NormDigits(_)
NormDigits(ds) ==
    IF ds = <<>> THEN <<0>>
    ELSE IF Head(ds) = 0 /\ Len(ds) > 1 THEN NormDigits(Tail(ds)) ELSE ds

Front(s) == SubSeq(s, 1, Len(s) - 1)

IsZero(d) == d.int = <<0>>

Dec(sign, int, exp) == [sign |-> sign, int |-> int, exp |-> exp]

DecZero == Dec(0, <<0>>, 0)

Max(a, b) == IF a >= b THEN a ELSE b

Min(a, b) == IF a <= b THEN a ELSE b

\* the position of the exponent marker of u, Len(u) + 1 when it has none
EPos(u) == Min(Find(u, "E", 1), Find(u, "e", 1))

CoeffOf(txt) == NormDigits([i \in 1..Len(txt) |-> DigitVal(txt[i])])

DecParseFields(neg, ip, fp, hasE, ex) ==
    IF /\ AllDigits(ip) /\ AllDigits(fp)
       /\ (ip # <<>> \/ fp # <<>>)
       /\ (~hasE \/ (Unsigned(ex) # <<>> /\ AllDigits(Unsigned(ex))))
    THEN [ok |-> TRUE,
          val |-> Dec(IF neg THEN 1 ELSE 0, CoeffOf(ip \o fp),
                      (IF ~hasE THEN 0
                       ELSE IF IsNegative(ex) THEN -DigitsVal(Unsigned(ex))
                       ELSE DigitsVal(Unsigned(ex))) - Len(fp))]
    ELSE [ok |-> FALSE, val |-> DecZero]

DecParseParts(neg, mp, hasE, ex) ==
    IF Len(mp) > 2 THEN [ok |-> FALSE, val |-> DecZero]
    ELSE DecParseFields(neg, mp[1], IF Len(mp) = 2 THEN mp[2] ELSE <<>>, hasE, ex)

DecParseAt(neg, u, e) ==
    DecParseParts(neg, Split(SubSeq(u, 1, e - 1), "."), e <= Len(u), SubSeq(u, e + 1, Len(u)))

DecParseUnsigned(neg, u) == DecParseAt(neg, u, EPos(u))

DecParseStripped(t) == DecParseUnsigned(IsNegative(t), Unsigned(t))

\* Decimal(s) for a str s; ok = FALSE stands for InvalidOperation.
\* [-+]? (digits [. digits*]? | . digits) (E [-+]? digits)?
DecParse(s) == DecParseStripped(Strip(s))

DigitsStr(ds) == [i \in 1..Len(ds) |-> DigitChar(ds[i])]

ExpText(x) ==
    IF x = 0 THEN <<>>
    ELSE <<"E", IF x < 0 THEN "-" ELSE "+">> \o NatToStr(IF x < 0 THEN -x ELSE x)

DecStrAt(d, n, leftdigits, dotplace) ==
    (IF d.sign = 1 THEN <<"-">> ELSE <<>>)
        \o (IF dotplace <= 0 THEN <<"0", ".">> \o DigitsStr(Zeros(-dotplace) \o d.int)
            ELSE IF dotplace >= n THEN DigitsStr(d.int \o Zeros(dotplace - n))
            ELSE DigitsStr(SubSeq(d.int, 1, dotplace)) \o <<".">>
                     \o DigitsStr(SubSeq(d.int, dotplace + 1, n)))
        \o ExpText(leftdigits - dotplace)

\* str(d) for a Decimal d: the digits with the point at dotplace, and an
\* exponent when the exponent is positive or the number below 1E-6
DecStr(d) ==
    DecStrAt(d, Len(d.int), d.exp + Len(d.int),
             IF d.exp <= 0 /\ d.exp + Len(d.int) > -6 THEN d.exp + Len(d.int) ELSE 1)

\* comparison of two coefficients without leading zeros: -1, 0 or 1
RECURSIVE MagCmp(_, _)
MagCmp(a, b) ==
    IF Len(a) # Len(b) THEN (IF Len(a) < Len(b) THEN -1 ELSE 1)
    ELSE IF a = <<>> THEN 0
    ELSE IF Head(a) # Head(b) THEN (IF Head(a) < Head(b) THEN -1 ELSE 1)
    ELSE MagCmp(Tail(a), Tail(b))

RECURSIVE MagAddC(_, _, _)
MagAddC(a, b, c) ==
    IF a = <<>> /\ b = <<>> THEN (IF c = 0 THEN <<>> ELSE <<c>>)
    ELSE LET x == IF a = <<>> THEN 0 ELSE a[Len(a)]
             y == IF b = <<>> THEN 0 ELSE b[Len(b)]
             t == x + y + c
         IN  MagAddC(IF a = <<>> THEN a ELSE Front(a), IF b = <<>> THEN b ELSE Front(b),
                     t \div 10) \o <<t % 10>>

MagAdd(a, b) == NormDigits(MagAddC(a, b, 0))

RECURSIVE MagSubB(_, _, _)
MagSubB(a, b, c) ==
    IF a = <<>> THEN <<>>
    ELSE LET y == IF b = <<>> THEN 0 ELSE b[Len(b)]
             t == a[Len(a)] - y - c
         IN  MagSubB(Front(a), IF b = <<>> THEN b ELSE Front(b), IF t < 0 THEN 1 ELSE 0)
                 \o <<IF t < 0 THEN t + 10 ELSE t>>

\* a - b for coefficients a >= b
MagSub(a, b) == NormDigits(MagSubB(a, b, 0))

\* the coefficient of d at the (smaller or equal) exponent e
Shifted(d, e) == IF IsZero(d) THEN <<0>> ELSE d.int \o Zeros(d.exp - e)

AddAligned(a, b, A, B, e) ==
    IF a.sign = b.sign THEN Dec(a.sign, MagAdd(A, B), e)
    ELSE IF MagCmp(A, B) = 0 THEN Dec(0, <<0>>, e)
    ELSE IF MagCmp(A, B) > 0 THEN Dec(a.sign, MagSub(A, B), e)
    ELSE Dec(b.sign, MagSub(B, A), e)

\* the mathematical sum a + b, at the exponent min(a.exp, b.exp)
AddExact(a, b) ==
    AddAligned(a, b, Shifted(a, Min(a.exp, b.exp)), Shifted(b, Min(a.exp, b.exp)),
               Min(a.exp, b.exp))

\* ROUND_HALF_EVEN: whether the kept digits go up for the dropped ones
RoundsUp(kept, dropped) ==
    IF dropped[1] = 5 /\ (\A i \in 2..Len(dropped) : dropped[i] = 0)
          /\ kept[Len(kept)] % 2 = 0
    THEN FALSE
    ELSE dropped[1] >= 5

FixTo(d, inc, e) ==
    IF Len(inc) > Prec THEN Dec(d.sign, Front(inc), e + 1) ELSE Dec(d.sign, inc, e)

FixRound(d, kept, dropped) ==
    FixTo(d, IF RoundsUp(kept, dropped) THEN MagAdd(kept, <<1>>) ELSE kept,
          d.exp + Len(d.int) - Prec)

\* Decimal._fix under the default context: a coefficient of more than Prec
\* digits is rounded to Prec digits, ROUND_HALF_EVEN
Fix(d) ==
    IF Len(d.int) <= Prec THEN d
    ELSE FixRound(d, SubSeq(d.int, 1, Prec), SubSeq(d.int, Prec + 1, Len(d.int)))

\* a nonzero b added to a zero a: b at the exponent e
Rescaled(b, e) == Fix(Dec(b.sign, Shifted(b, e), e))

\* a + b for Decimals under the default context (Decimal.__add__)
DecAdd(a, b) ==
    IF IsZero(a) /\ ~IsZero(b)
    THEN Rescaled(b, Max(Min(a.exp, b.exp), b.exp - Prec - 1))
    ELSE IF IsZero(b) /\ ~IsZero(a)
    THEN Rescaled(a, Max(Min(a.exp, b.exp), a.exp - Prec - 1))
    ELSE Fix(AddExact(a, b))

RECURSIVE StripTrailingZeros(_)
StripTrailingZeros(d) ==
    IF ~IsZero(d) /\ d.int[Len(d.int)] = 0
    THEN StripTrailingZeros(Dec(d.sign, Front(d.int), d.exp + 1))
    ELSE d

\* a == b for Decimals: equality of the numbers, not of the representations
DecEq(a, b) ==
    IF IsZero(a) \/ IsZero(b) THEN IsZero(a) /\ IsZero(b)
    ELSE StripTrailingZeros(a) = StripTrailingZeros(b)

----------------------------------------------------------------------------
(* The store: expenses.csv as DictReader and DictWriter see it *)

\* the default category of a row without one
Uncategorized == <<"u", "n", "c", "a", "t", "e", "g", "o", "r", "i", "z", "e", "d">>

\* the default currency
USD == <<"U", "S", "D">>

\* the state of the file system before the file is first created
NoFile == [exists |-> FALSE, header |-> "none", rows |-> <<>>]

\* a file holding the header row and nothing else
HeaderOnly == [exists |-> TRUE, header |-> "full", rows |-> <<>>]

ensure_file(f) == IF ~f.exists THEN HeaderOnly ELSE f

OrDefault(s, default) == IF s # <<>> THEN s ELSE default

\* the expense dict load_expenses builds from one row (lines 61-84)
ParseRow(row) ==
    [id |-> IntParse(row.id).val,
     date |-> IF Strip(row.date) # <<>> THEN StrpDate(Strip(row.date)).val ELSE NoDate,
     category |-> OrDefault(Strip(row.category), Uncategorized),
     amount |-> IF Strip(row.amount) # <<>> THEN DecParse(Strip(row.amount)).val ELSE DecZero,
     currency |-> OrDefault(Strip(row.currency), USD),
     description |-> Strip(row.description)]

\* the columns of the file, in the order of a line
FIELDNAMES == <<"id", "date", "category", "amount", "currency", "description">>

\* the value DictReader gives a cell that the line of its row does not reach
\* (None); it is no text
Missing == <<"None">>

\* rows with a missing, empty or non-integer id are skipped
RowKept(row) == row.id # Missing /\ row.id # <<>> /\ IntParse(row.id).ok

\* row.get(name, "").strip() on a cell that is None raises AttributeError
RowRaises(row) ==
    RowKept(row) /\ \E k \in 2..Len(FIELDNAMES) : row[FIELDNAMES[k]] = Missing

\* load_expenses raises on the file f: no handler catches it, the command
\* ends with the traceback and the file is left as it is
LoadRaises(f) == \E i \in 1..Len(f.rows) : RowRaises(f.rows[i])

\* the outcome of a command whose load_expenses raised
Crashed(f, op) ==
    [file |-> f, recs |-> <<>>, out |-> [op |-> op, kind |-> "attribute_error"]]

RECURSIVE LoadRows(_)
LoadRows(rows) ==
    IF rows = <<>> THEN <<>>
    ELSE IF RowKept(Head(rows)) THEN <<ParseRow(Head(rows))>> \o LoadRows(Tail(rows))
    ELSE LoadRows(Tail(rows))

\* the list load_expenses returns for the file f (after ensure_file)
load_expenses(f) == LoadRows(ensure_file(f).rows)

\* the row save_expenses writes for one expense (lines 99-106)
ToRow(e) ==
    [id |-> IntToStr(e.id),
     date |-> IF e.date # NoDate THEN IsoFormat(e.date) ELSE <<>>,
     category |-> e.category,
     amount |-> DecStr(e.amount),
     currency |-> e.currency,
     description |-> e.description]

\* the file save_expenses leaves when it runs to completion
save_expenses(expenses) ==
    [exists |-> TRUE, header |-> "full",
     rows |-> [i \in 1..Len(expenses) |-> ToRow(expenses[i])]]

Ids(expenses) == {expenses[i].id : i \in 1..Len(expenses)}

MaxOf(S) == CHOOSE x \in S : \A y \in S : y <= x

\* a next id taken from the number of records
next_id_count(expenses) == Len(expenses) + 1

next_id(expenses) == IF expenses = <<>> THEN 1 ELSE MaxOf(Ids(expenses)) + 1

----------------------------------------------------------------------------
(* Listing *)

\* a sort key that puts an undated record at date.max
SortKey_max(e) == IF e.date # NoDate THEN e.date ELSE <<9999, 12, 31>>

\* the sort key of list_expenses: x["date"] or date.min
SortKey(e) == IF e.date # NoDate THEN e.date ELSE DateMin

\* sorted(..., reverse=True) keeps the original order of equal keys: x goes
\* before the first element whose key is smaller than its own
RECURSIVE InsertDesc(_, _)
InsertDesc(s, x) ==
    IF s = <<>> THEN <<x>>
    ELSE IF DateLess(SortKey(Head(s)), SortKey(x)) THEN <<x>> \o s
    ELSE <<Head(s)>> \o InsertDesc(Tail(s), x)

RECURSIVE SortedByDateDesc(_)
SortedByDateDesc(s) ==
    IF s = <<>> THEN <<>> ELSE InsertDesc(SortedByDateDesc(Front(s)), s[Len(s)])

\* s[:limit]
Take(s, limit) ==
    IF limit >= 0 THEN SubSeq(s, 1, Min(limit, Len(s)))
    ELSE SubSeq(s, 1, Max(0, Len(s) + limit))

\* the rows list_expenses prints, in order
Shown(expenses, limit) == Take(SortedByDateDesc(expenses), limit)

\* limit of list_expenses when the caller gives none
DefaultLimit == 20

\* limit delete_expense passes to list_expenses
DeletePreviewLimit == 50

----------------------------------------------------------------------------
(* Summary *)

Neg(d) == Dec(1 - d.sign, d.int, d.exp)

IsNegativeDec(d) == ~IsZero(d) /\ d.sign = 1

\* a < b for Decimals
DecLess(a, b) == IsNegativeDec(AddExact(a, Neg(b)))

\* sum(e["amount"] for e in s) continued from acc; sum starts from 0
RECURSIVE SumAmounts(_, _)
SumAmounts(s, acc) ==
    IF s = <<>> THEN acc ELSE SumAmounts(Tail(s), DecAdd(acc, Head(s).amount))

AppendNew(c, x) == IF \E i \in 1..Len(c) : c[i] = x THEN c ELSE Append(c, x)

\* the categories of s in order of first appearance (the keys of by_cat)
RECURSIVE Cats(_)
Cats(s) == IF s = <<>> THEN <<>> ELSE AppendNew(Cats(Front(s)), s[Len(s)].category)

OfCategory(s, c) == SelectSeq(s, LAMBDA e : e.category = c)

Subtotals(s, c) ==
    [i \in 1..Len(c) |-> [cat |-> c[i], amt |-> SumAmounts(OfCategory(s, c[i]), DecZero)]]

\* by_cat.items(): each category with the sum of its amounts, from Decimal("0")
ByCat(s) == Subtotals(s, Cats(s))

RECURSIVE InsertByAmt(_, _)
InsertByAmt(s, x) ==
    IF s = <<>> THEN <<x>>
    ELSE IF DecLess(Head(s).amt, x.amt) THEN <<x>> \o s
    ELSE <<Head(s)>> \o InsertByAmt(Tail(s), x)

\* sorted(by_cat.items(), key=lambda x: x[1], reverse=True)
RECURSIVE SortedByAmtDesc(_)
SortedByAmtDesc(s) ==
    IF s = <<>> THEN <<>> ELSE InsertByAmt(SortedByAmtDesc(Front(s)), s[Len(s)])

\* a month test that forgets the month
MonthMatches_year(e, year, mon) == e.date # NoDate /\ e.date[1] = year

\* the test of the month filter on one expense (line 242)
MonthMatches(e, year, mon) == e.date # NoDate /\ e.date[1] = year /\ e.date[2] = mon

\* the currency of the last record instead of the first
SummaryCurrency_last(filtered) == filtered[Len(filtered)].currency

\* the currency printed beside the total (line 264)
SummaryCurrency(filtered) == filtered[1].currency

ParseParts(parts) ==
    IF Len(parts) >= 2
    THEN [ok |-> IntParse(parts[1]).ok /\ IntParse(parts[2]).ok,
          year |-> IntParse(parts[1]).val, mon |-> IntParse(parts[2]).val]
    ELSE [ok |-> FALSE, year |-> 0, mon |-> 0]

\* month.split("-"), int(parts[0]), int(parts[1]); ok = FALSE stands for the
\* exception the handler catches (ValueError, IndexError)
ParseMonth(month) == ParseParts(Split(month, "-"))

\* lines 248-267: the report on the filtered list
Summary(filtered, month, title) ==
    IF filtered = <<>>
    THEN [op |-> "summarize", kind |-> "no_expenses", month |-> month, title |-> title]
    ELSE [op |-> "summarize", kind |-> "summary", month |-> month, title |-> title,
          filtered |-> filtered,
          total |-> SumAmounts(filtered, DecZero),
          currency |-> SummaryCurrency(filtered),
          by_cat |-> SortedByAmtDesc(ByCat(filtered))]

\* lines 233-244: the month given is parsed and the expenses filtered by it
SummaryOfMonth(expenses, month, pm) ==
    IF ~pm.ok THEN [op |-> "summarize", kind |-> "invalid_month", month |-> month]
    ELSE Summary(SelectSeq(expenses, LAMBDA e : MonthMatches(e, pm.year, pm.mon)),
                 month, <<pm.year, pm.mon>>)

Summarized(expenses, month) ==
    IF expenses = <<>>
    THEN [op |-> "summarize", kind |-> "nothing_to_summarize", month |-> month]
    ELSE IF month # <<>> THEN SummaryOfMonth(expenses, month, ParseMonth(month))
    ELSE Summary(expenses, month, <<>>)

\* what summarize_expenses(month) reports on the file f; month = <<>> is None
\* (the title is <<>> for all time, <<year, mon>> for a month)
summarize_expenses(f, month) ==
    IF LoadRaises(f) THEN Crashed(f, "summarize").out
    ELSE Summarized(load_expenses(f), month)

Listed(expenses, limit) ==
    IF expenses = <<>> THEN [op |-> "list", kind |-> "none", limit |-> limit, shown |-> <<>>]
    ELSE [op |-> "list", kind |-> "listed", limit |-> limit, shown |-> Shown(expenses, limit)]

\* what list_expenses(limit=limit) reports on the file f
list_expenses(f, limit) ==
    IF LoadRaises(f) THEN Crashed(f, "list").out
    ELSE Listed(load_expenses(f), limit)

----------------------------------------------------------------------------
(* Add and delete *)

\* date.today(), the default date of add_expense
Today == <<2025, 11, 2>>

Added(expenses, new_expense) ==
    [file |-> save_expenses(Append(expenses, new_expense)),
     recs |-> Append(expenses, new_expense),
     out |-> [op |-> "add", kind |-> "added", id |-> new_expense.id]]

NotAdded(f, expenses, kind, eid) ==
    [file |-> ensure_file(f), recs |-> expenses,
     out |-> [op |-> "add", kind |-> kind, id |-> eid]]

AddParsed(f, expenses, eid, in, dt, amount) ==
    IF ~dt.ok THEN NotAdded(f, expenses, "invalid_date", eid)
    ELSE IF ~amount.ok THEN NotAdded(f, expenses, "invalid_amount", eid)
    ELSE Added(expenses,
               [id |-> eid, date |-> dt.val,
                category |-> OrDefault(Strip(in[2]), Uncategorized),
                amount |-> amount.val,
                currency |-> OrDefault(Strip(in[4]), USD),
                description |-> Strip(in[5])])

AddTo(f, expenses, in) ==
    AddParsed(f, expenses, next_id(expenses), in,
              StrpDate(OrDefault(Strip(in[1]), IsoFormat(Today))), DecParse(Strip(in[3])))

\* the file and the report add_expense leaves for the five answers typed
add_expense(f, in) ==
    IF LoadRaises(f) THEN Crashed(f, "add") ELSE AddTo(f, load_expenses(f), in)

\* a filter that hands the records kept back in the opposite order
WithoutId_reversed(expenses, eid) ==
    [i \in 1..Len(SelectSeq(expenses, LAMBDA e : e.id # eid)) |->
        SelectSeq(expenses, LAMBDA e : e.id # eid)[
            Len(SelectSeq(expenses, LAMBDA e : e.id # eid)) + 1 - i]]

WithoutId(expenses, eid) == SelectSeq(expenses, LAMBDA e : e.id # eid)

DeleteParsed(f, expenses, id_input, eid, new_expenses, shown) ==
    IF ~eid.ok
    THEN [file |-> f, recs |-> expenses,
          out |-> [op |-> "delete", kind |-> "invalid_id", input |-> id_input, shown |-> shown]]
    ELSE IF Len(new_expenses) = Len(expenses)
    THEN [file |-> f, recs |-> expenses,
          out |-> [op |-> "delete", kind |-> "not_found", input |-> id_input,
                   id |-> eid.val, shown |-> shown]]
    ELSE [file |-> save_expenses(new_expenses), recs |-> new_expenses,
          out |-> [op |-> "delete", kind |-> "deleted", input |-> id_input,
                   id |-> eid.val, shown |-> shown]]

DeleteTyped(f, expenses, id_input, eid) ==
    DeleteParsed(f, expenses, id_input, eid, WithoutId(expenses, eid.val),
                 Shown(expenses, DeletePreviewLimit))

DeleteFrom(f, expenses, id_input) ==
    IF expenses = <<>>
    THEN [file |-> ensure_file(f), recs |-> expenses,
          out |-> [op |-> "delete", kind |-> "none", input |-> id_input]]
    ELSE DeleteTyped(f, expenses, id_input, IntParse(Strip(id_input)))

\* the file and the report delete_expense leaves for the id typed
delete_expense(f, id_input) ==
    IF LoadRaises(f) THEN Crashed(f, "delete")
    ELSE DeleteFrom(f, load_expenses(f), id_input)

----------------------------------------------------------------------------
(* Inputs *)

Food == <<"f", "o", "o", "d">>

Rent == <<"r", "e", "n", "t">>

EUR == <<"E", "U", "R">>

\* answers to the five prompts of add_expense: date, category, amount,
\* currency, description
AddInputs ==
    { <<<<"2", "0", "2", "5", "-", "1", "0", "-", "0", "1">>, Food, <<"1", "0", ".", "1", "0">>, <<>>, <<>>>>,
      <<<<"2", "0", "2", "5", "-", "1", "0", "-", "3", "1">>, <<" ", "r", "e", "n", "t", " ">>, <<"5", ".", "0", "0">>, EUR, <<" ", "x">>>>,
      <<<<>>, <<>>, <<"-", "3">>, USD, <<>>>>,
      <<<<"2", "0", "2", "5", "-", "1", "3", "-", "0", "1">>, Food, <<"1">>, <<>>, <<>>>>,
      <<<<"2", "0", "2", "5", "-", "1", "1", "-", "0", "1">>, Food, <<"1", ".", "2", ".", "3">>, <<>>, <<>>>> }

\* answers to the id prompt of delete_expense
DeleteInputs == {IntToStr(i) : i \in 0..MaxId} \cup {<<" ", "1", " ">>, <<"x">>}

NoOut == [op |-> "none", kind |-> "none"]

----------------------------------------------------------------------------
(* The ledger: commands run one after the other, from an empty store *)

Init ==
    /\ file = ensure_file(NoFile)
    /\ out = NoOut
    /\ deleted = {}
    /\ recs = <<>>
    /\ pc = "idle"
    /\ prev = ensure_file(NoFile)

\* the bound of the model on the size of the store and on the ids: an add
\* that would pass it is left out
Within(r) == Len(r.recs) <= MaxRecords /\ (r.out.kind = "added" => r.out.id <= MaxId)

ApplyAdd(r) ==
    /\ Within(r)
    /\ file' = r.file
    /\ out' = r.out
    /\ prev' = file
    /\ UNCHANGED <<deleted, recs, pc>>

Add(in) == ApplyAdd(add_expense(file, in))

ApplyDelete(r) ==
    /\ file' = r.file
    /\ out' = r.out
    /\ prev' = file
    /\ UNCHANGED <<deleted, recs, pc>>

Delete(id_input) == ApplyDelete(delete_expense(file, id_input))

Next ==
    \/ \E in \in AddInputs : Add(in)
    \/ \E id_input \in DeleteInputs : Delete(id_input)

Spec == Init /\ [][Next]_vars

\* The same ledger with its history: deleted collects the ids of the records
\* deleted so far
NoteDelete(r) ==
    /\ file' = r.file
    /\ out' = r.out
    /\ prev' = file
    /\ deleted' = IF r.out.kind = "deleted" THEN deleted \cup {r.out.id} ELSE deleted
    /\ UNCHANGED <<recs, pc>>

DeleteNoted(id_input) == NoteDelete(delete_expense(file, id_input))

NextNoted ==
    \/ \E in \in AddInputs : Add(in)
    \/ \E id_input \in DeleteInputs : DeleteNoted(id_input)

SpecNoted == Init /\ [][NextNoted]_vars

----------------------------------------------------------------------------
(* Claims about the ledger *)

StoreRecords == load_expenses(file)

\* C1: from an empty store, after any adds and deletes, every record of the
\* store has a positive id that no other record has, and an add assigns
\* next_id: 1 on an empty store, else the largest id present plus one, an id
\* no record already present has.
C1_UniquePositiveIds ==
    LET store == StoreRecords
        before == load_expenses(prev)
    IN  /\ \A i \in 1..Len(store) : store[i].id >= 1
        /\ \A i, j \in 1..Len(store) : i # j => store[i].id # store[j].id
        /\ (out.op = "add" /\ out.kind = "added") =>
              /\ out.id \notin Ids(before)
              /\ out.id = (IF before = <<>> THEN 1
                           ELSE (CHOOSE x \in Ids(before) : \A y \in Ids(before) : y <= x) + 1)
              /\ store[Len(store)].id = out.id
              /\ Len(store) = Len(before) + 1

\* an add into a store that holds a record and has seen a deletion: the
\* store no longer starts at id 1
C1_Witness ==
    /\ out.op = "add" /\ out.kind = "added"
    /\ Len(StoreRecords) = 2
    /\ StoreRecords[1].id > 1

\* C2: once a record with id k has been deleted, no later add assigns id k.
C2_NoReuseAfterDelete == (out.op = "add" /\ out.kind = "added") => out.id \notin deleted

\* C3: deleting an id present among the n records loaded leaves a store of
\* n-1 records without that id, the others unchanged and in their order;
\* deleting an absent id leaves the file as it was and reports not-found.
\* On a store without records no id is asked for: the outcome reported is
\* that there is nothing to delete, and the file is left as it was.
C3_DeleteFrame ==
    out.op = "delete" =>
        LET old == load_expenses(prev)
            store == StoreRecords
            typed == IntParse(Strip(out.input))
        IN  /\ (typed.ok /\ typed.val \in Ids(old)) =>
                  /\ out.kind = "deleted"
                  /\ Len(store) = Len(old) - 1
                  /\ typed.val \notin Ids(store)
                  /\ \E k \in 1..Len(old) :
                        /\ old[k].id = typed.val
                        /\ store = SubSeq(old, 1, k - 1) \o SubSeq(old, k + 1, Len(old))
                        /\ file.rows = SubSeq(prev.rows, 1, k - 1)
                                           \o SubSeq(prev.rows, k + 1, Len(prev.rows))
            /\ (typed.ok /\ typed.val \notin Ids(old) /\ old # <<>>) =>
                  out.kind = "not_found" /\ file = prev
            /\ old = <<>> => out.kind = "none" /\ file = prev
            /\ out.kind # "deleted" => file = prev

\* the middle one of three records has been deleted: a record stays on
\* either side of it, and the two that stay differ
C3_Witness ==
    /\ out.op = "delete" /\ out.kind = "deleted"
    /\ Len(load_expenses(prev)) = 3
    /\ load_expenses(prev)[2].id = out.id
    /\ Len(StoreRecords) = 2
    /\ StoreRecords[1].id < StoreRecords[2].id
    /\ StoreRecords[1].category # StoreRecords[2].category

----------------------------------------------------------------------------
(* Reports: list_expenses and summarize_expenses over a store that exists   *)
(* already, written by the program or by hand                               *)

Row(id, date, category, amount, currency, description) ==
    [id |-> id, date |-> date, category |-> category, amount |-> amount,
     currency |-> currency, description |-> description]

\* rows a store may hold: dated and undated, of several months, categories,
\* currencies and magnitudes, and one without a numeric id
ReportRows ==
    { Row(<<"1">>, <<"2", "0", "2", "5", "-", "1", "0", "-", "0", "1">>, Food, <<"1", "0", ".", "1", "0">>, USD, <<>>),
      Row(<<"2">>, <<"2", "0", "2", "5", "-", "1", "0", "-", "3", "1">>, Rent, <<"0", ".", "2", "0">>, EUR, <<>>),
      Row(<<"3">>, <<"2", "0", "2", "5", "-", "1", "1", "-", "0", "1">>, Food, <<"5", ".", "0", "0">>, USD, <<>>),
      Row(<<"4">>, <<>>, Rent, <<"-", "3">>, EUR, <<"x">>),
      Row(<<"5">>, <<"0", "0", "0", "1", "-", "0", "1", "-", "0", "1">>, Food, <<"1", "E", "+", "2", "8">>, USD, <<>>),
      Row(<<"x">>, <<"2", "0", "2", "5", "-", "1", "0", "-", "0", "2">>, Food, <<"7">>, USD, <<>>) }

\* sequences of at most n distinct elements of S
RECURSIVE SeqsUpTo(_, _)
SeqsUpTo(S, n) ==
    IF n = 0 THEN {<<>>}
    ELSE LET shorter == SeqsUpTo(S, n - 1)
         IN  shorter \cup {Append(q, x) : q \in {t \in shorter : Len(t) = n - 1},
                                          x \in S} 

Distinct(q) == \A i, j \in 1..Len(q) : i # j => q[i] # q[j]

ReportFiles ==
    {[exists |-> TRUE, header |-> "full", rows |-> q] :
        q \in {t \in SeqsUpTo(ReportRows, MaxRows) : Distinct(t)}}

\* what is typed at the month prompt of main
MonthInputs ==
    { <<>>, <<"2", "0", "2", "5", "-", "1", "0">>, <<" ", "2", "0", "2", "5", "-", "1", "1", " ">>, <<"2", "0", "2", "5", "-", "1", "2">>, <<"2", "0", "2", "5", "-", "1", "3">>, <<"2", "0", "2", "5", "-", "1", "0", "-", "0", "7">>, <<"1", "-", "1">>,
      <<"2", "0", "2", "5">>, <<"a", "b", "c">> }

Limits == 0..MaxLimit \cup {DefaultLimit}

InitReport ==
    /\ file \in ReportFiles
    /\ out = NoOut
    /\ deleted = {}
    /\ recs = <<>>
    /\ pc = "idle"
    /\ prev = file

List(limit) ==
    /\ out' = list_expenses(file, limit)
    /\ UNCHANGED <<file, deleted, recs, pc, prev>>

\* main strips the month typed and passes None for an empty one
Summarize(month) ==
    /\ out' = summarize_expenses(file, Strip(month))
    /\ UNCHANGED <<file, deleted, recs, pc, prev>>

NextReport ==
    \/ \E limit \in Limits : List(limit)
    \/ \E month \in MonthInputs : Summarize(month)

SpecReport == InitReport /\ [][NextReport]_vars

----------------------------------------------------------------------------
(* Claims about the reports *)

\* a text of the form YYYY-MM: four digits, a dash, a month 01..12
IsYearMonth(s) ==
    /\ Len(s) = 7
    /\ AllDigits(SubSeq(s, 1, 4))
    /\ s[5] = "-"
    /\ AllDigits(SubSeq(s, 6, 7))
    /\ DigitsVal(SubSeq(s, 6, 7)) \in 1..12

\* C6: for every month filter given that is not of the form YYYY-MM, the
\* outcome of summarize is the invalid-format error, whatever the store holds.
C6_MalformedMonthIsError ==
    (out.op = "summarize" /\ out.month # <<>> /\ ~IsYearMonth(out.month))
        => out.kind = "invalid_month"

ValidMonths ==
    { [text |-> <<"2", "0", "2", "5", "-", "1", "0">>, y |-> 2025, m |-> 10],
      [text |-> <<"2", "0", "2", "5", "-", "1", "1">>, y |-> 2025, m |-> 11],
      [text |-> <<"2", "0", "2", "5", "-", "1", "2">>, y |-> 2025, m |-> 12] }

InMonth(s, y, m) ==
    SelectSeq(s, LAMBDA e : Len(e.date) = 3 /\ e.date[1] = y /\ e.date[2] = m)

\* C7: with a valid month filter, summarize takes exactly the records whose
\* date is present and of that year and month, in file order; when none
\* matches it reports no expenses and gives no total and no breakdown.
C7_MonthFilterExact ==
    out.op = "summarize" =>
        \A vm \in ValidMonths :
            out.month = vm.text =>
                LET expected == InMonth(StoreRecords, vm.y, vm.m)
                IN  IF StoreRecords = <<>> THEN out.kind = "nothing_to_summarize"
                    ELSE IF expected = <<>>
                    THEN out.kind = "no_expenses" /\ out.title = <<vm.y, vm.m>>
                    ELSE /\ out.kind = "summary"
                         /\ out.filtered = expected
                         /\ out.title = <<vm.y, vm.m>>

\* a summary of October 2025 over a store that also holds an undated record
\* and a record of another month
C7_Witness ==
    /\ out.op = "summarize" /\ out.kind = "summary" /\ out.month = <<"2", "0", "2", "5", "-", "1", "0">>
    /\ \E i \in 1..Len(StoreRecords) : StoreRecords[i].date = NoDate
    /\ \E i \in 1..Len(StoreRecords) : StoreRecords[i].date = <<2025, 11, 1>>
    /\ Len(out.filtered) = 1

\* the mathematical sum of the amounts of s
RECURSIVE ExactSum(_)
ExactSum(s) == IF s = <<>> THEN DecZero ELSE AddExact(ExactSum(Front(s)), s[Len(s)].amount)

RECURSIVE ExactSumOfSubtotals(_)
ExactSumOfSubtotals(bc) ==
    IF bc = <<>> THEN DecZero ELSE AddExact(ExactSumOfSubtotals(Front(bc)), bc[Len(bc)].amt)

\* C8: for a non-empty filtered set the total is the exact sum of its amounts,
\* each category's subtotal is the exact sum of the amounts of its records,
\* every record falls in exactly one category and the subtotals add up to
\* the total.
C8_ExactTotals ==
    (out.op = "summarize" /\ out.kind = "summary") =>
        /\ DecEq(out.total, ExactSum(out.filtered))
        /\ \A i \in 1..Len(out.by_cat) :
              DecEq(out.by_cat[i].amt, ExactSum(OfCategory(out.filtered, out.by_cat[i].cat)))
        /\ \A k \in 1..Len(out.filtered) :
              Cardinality({i \in 1..Len(out.by_cat) :
                              out.by_cat[i].cat = out.filtered[k].category}) = 1
        /\ DecEq(ExactSumOfSubtotals(out.by_cat), out.total)

\* the date a record is ordered by in the claim: its own, or 0001-01-01
DateKey(e) == IF Len(e.date) = 3 THEN e.date ELSE <<1, 1, 1>>

ListCommon ==
    /\ Len(out.shown) <= out.limit
    /\ Len(out.shown) = Min(out.limit, Len(StoreRecords))
    /\ \A i \in 1..Len(out.shown) : \E k \in 1..Len(StoreRecords) : StoreRecords[k] = out.shown[i]
    /\ \A i, j \in 1..Len(out.shown) :
          i < j => ~DateLess(DateKey(out.shown[i]), DateKey(out.shown[j]))
    /\ \A k \in 1..Len(StoreRecords) :
          (\A i \in 1..Len(out.shown) : out.shown[i] # StoreRecords[k]) =>
              \A i \in 1..Len(out.shown) :
                  ~DateLess(DateKey(out.shown[i]), DateKey(StoreRecords[k]))

\* C9 (as stated): the list shows at most limit records of the input, by
\* date descending, every undated record after every dated record, and the
\* records left out are never more recent than a record shown.
C9_UndatedAfterAllDated ==
    (out.op = "list" /\ out.kind = "listed") =>
        /\ ListCommon
        /\ \A i, j \in 1..Len(out.shown) :
              (i < j /\ out.shown[i].date = NoDate) => out.shown[j].date = NoDate

\* C9 (amended): the list shows at most limit records of the input, by date
\* descending with an undated record keyed as date.min: every undated record
\* comes after every record dated later than 0001-01-01 (a record dated
\* 0001-01-01 ties with the undated ones and keeps its file order), and the
\* records left out are never more recent than a record shown.
C9_UndatedAfterLaterDated ==
    (out.op = "list" /\ out.kind = "listed") =>
        /\ ListCommon
        /\ \A i, j \in 1..Len(out.shown) :
              (i < j /\ out.shown[i].date = NoDate) =>
                  (out.shown[j].date = NoDate \/ out.shown[j].date = DateMin)

\* a truncated list of a store whose first record is undated
C9_Witness ==
    /\ out.op = "list" /\ out.kind = "listed"
    /\ Len(StoreRecords) = 2
    /\ StoreRecords[1].date = NoDate
    /\ StoreRecords[2].date = <<2025, 10, 1>>
    /\ out.shown = <<StoreRecords[2]>>

\* C10 (as stated): the currency of a summary is that of the first record of
\* the filtered set after sorting it by date, the most recent one.
C10_CurrencyOfMostRecent ==
    (out.op = "summarize" /\ out.kind = "summary") =>
        out.currency = SortedByDateDesc(out.filtered)[1].currency

\* C10 (amended): the currency of a summary is that of the first record of
\* the filtered set in file order, whatever the dates.
C10_CurrencyOfFirstInFile ==
    (out.op = "summarize" /\ out.kind = "summary") =>
        LET pm == ParseMonth(out.month)
            hits == {k \in 1..Len(StoreRecords) :
                        out.month = <<>> \/
                        (Len(StoreRecords[k].date) = 3 /\ StoreRecords[k].date[1] = pm.year
                            /\ StoreRecords[k].date[2] = pm.mon)}
            first == CHOOSE k \in hits : \A h \in hits : k <= h
        IN  out.currency = StoreRecords[first].currency

\* a summary of two records of one month, the later one first in the file,
\* in different currencies
C10_Witness ==
    /\ out.op = "summarize" /\ out.kind = "summary" /\ out.month = <<"2", "0", "2", "5", "-", "1", "0">>
    /\ Len(out.filtered) = 2
    /\ DateLess(out.filtered[2].date, out.filtered[1].date)
    /\ out.filtered[1].currency # out.filtered[2].currency
    /\ out.currency = out.filtered[1].currency

----------------------------------------------------------------------------
(* Round trip: save_expenses then load_expenses on a list of expense dicts *)

Expense(id, date, category, amount, currency, description) ==
    [id |-> id, date |-> date, category |-> category, amount |-> amount,
     currency |-> currency, description |-> description]

\* expense dicts of the types the program builds: integer id, date or None,
\* Decimal amount, non-empty category and currency, free text
RoundTripExpenses ==
    { Expense(1, <<2025, 10, 1>>, Food, Dec(0, <<1, 0, 1, 0>>, -2), USD, <<>>),
      Expense(2, NoDate, Rent, Dec(1, <<3>>, 0), EUR, <<"x">>),
      Expense(3, <<1, 1, 1>>, Food, Dec(0, <<1>>, 28), USD, <<"a", " ", "b">>),
      Expense(0, <<2024, 2, 29>>, Rent, Dec(0, <<0>>, -3), EUR, <<>>),
      Expense(-7, <<2025, 12, 31>>, Food, Dec(0, <<1>>, -7), USD, <<>>),
      Expense(4, <<2025, 10, 1>>, Food,
              Dec(0, <<1, 2, 3, 4, 5, 6, 7, 8, 9, 0, 1, 2, 3, 4, 5, 6, 7, 8, 9, 0, 1, 2, 3, 4, 5, 6, 7, 8, 9, 0>>, 0), USD, <<>>),
      Expense(5, <<2025, 10, 1>>, Food, Dec(0, <<5>>, 0), USD, <<" ", "x">>),
      Expense(6, <<2025, 10, 1>>, <<"f", "o", "o", "d", " ">>, Dec(0, <<5>>, 0), USD, <<>>) }

InitRoundTrip ==
    /\ recs \in {t \in SeqsUpTo(RoundTripExpenses, MaxRows) : Distinct(t)}
    /\ file = ensure_file(NoFile)
    /\ out = NoOut
    /\ deleted = {}
    /\ pc = "idle"
    /\ prev = ensure_file(NoFile)

Loaded(f) ==
    /\ file' = f
    /\ out' = [op |-> "roundtrip", kind |-> "loaded", loaded |-> load_expenses(f)]
    /\ UNCHANGED <<deleted, recs, pc, prev>>

RoundTrip == out.op = "none" /\ Loaded(save_expenses(recs))

NextRoundTrip == RoundTrip

SpecRoundTrip == InitRoundTrip /\ [][NextRoundTrip]_vars

\* C5 (as stated): saving any list of valid expenses and loading it again
\* gives the same list, every field of every record preserved exactly.
C5_RoundTripAnyText == out.op = "roundtrip" => out.loaded = recs

NoOuterSpace(s) == Strip(s) = s

Trimmed(e) ==
    NoOuterSpace(e.category) /\ NoOuterSpace(e.currency) /\ NoOuterSpace(e.description)

\* C5 (amended): saving a list of valid expenses whose category, currency and
\* description carry no leading or trailing whitespace, and loading it
\* again, gives the same list in the same order, every field preserved
\* exactly.
C5_RoundTripTrimmed ==
    (out.op = "roundtrip" /\ \A i \in 1..Len(recs) : Trimmed(recs[i])) =>
        /\ out.loaded = recs
        /\ Len(file.rows) = Len(recs)

\* three records saved and loaded again: an undated one, one dated
\* 0001-01-01 with an amount in scientific notation, one of thirty digits
C5_Witness ==
    /\ out.op = "roundtrip"
    /\ Len(recs) = 3
    /\ recs[1].date = NoDate
    /\ recs[2].amount = Dec(0, <<1>>, 28) /\ recs[2].date = DateMin
    /\ Len(recs[3].amount.int) = 30
    /\ out.loaded = recs

----------------------------------------------------------------------------
(* Saving step by step: open(CSV_FILE, "w") empties the file, the header   *)
(* and the rows follow one write at a time.  What is written waits in the  *)
(* buffer of the file object until it is flushed (at the latest when the   *)
(* with-block closes the file), and the storage may take only the first    *)
(* bytes of it.                                                            *)

\* the file right after open(..., mode="w")
Truncated == [exists |-> TRUE, header |-> "none", rows |-> <<>>]

\* the handler r reaches save_expenses (the file is opened and emptied) or
\* returns before it
Begun(r, saves) ==
    /\ pc = "idle"
    /\ prev' = file
    /\ IF saves
       THEN /\ file' = Truncated
            /\ recs' = r.recs
            /\ pc' = "header"
            /\ out' = [r.out EXCEPT !.kind = "saving"]
       ELSE /\ file' = r.file
            /\ out' = r.out
            /\ UNCHANGED <<recs, pc>>
    /\ UNCHANGED deleted

BegunAdd(r) == Within(r) /\ Begun(r, r.out.kind = "added")

BeginAdd(in) == BegunAdd(add_expense(file, in))

BegunDelete(r) == Begun(r, r.out.kind = "deleted")

BeginDelete(id_input) == BegunDelete(delete_expense(file, id_input))

WriteHeader ==
    /\ pc = "header"
    /\ file' = [file EXCEPT !.header = "full"]
    /\ pc' = "rows"
    /\ UNCHANGED <<out, deleted, recs, prev>>

WriteRow ==
    /\ pc = "rows"
    /\ Len(file.rows) < Len(recs)
    /\ file' = [file EXCEPT !.rows = Append(@, ToRow(recs[Len(file.rows) + 1]))]
    /\ UNCHANGED <<out, deleted, recs, pc, prev>>

Close ==
    /\ pc = "rows"
    /\ Len(file.rows) = Len(recs)
    /\ pc' = "idle"
    /\ out' = [out EXCEPT !.kind = "saved"]
    /\ UNCHANGED <<file, deleted, recs, prev>>

\* the line of row cut in its k-th cell after n characters: the cells before
\* are whole, the cells after are not there
Torn(row, k, n) ==
    [name \in DOMAIN row |->
        IF name = FIELDNAMES[k] THEN SubSeq(row[name], 1, n)
        ELSE IF \E j \in 1..(k - 1) : name = FIELDNAMES[j] THEN row[name]
        ELSE Missing]

\* every way the line of row can be cut after its first byte
TornRows(row) ==
    UNION {{Torn(row, k, n) : n \in 0..Len(row[FIELDNAMES[k]])} :
              k \in 1..Len(FIELDNAMES)} \ {Torn(row, 1, 0)}

\* the files that hold the first bytes of what was written to f: nothing, a
\* part of the header line, the header and the first rows, with or without
\* a part of the row after them
Prefixes(f) ==
    IF f.header = "none" THEN {f}
    ELSE {Truncated, [f EXCEPT !.header = "part", !.rows = <<>>]}
         \cup {[f EXCEPT !.rows = SubSeq(f.rows, 1, n)] : n \in 0..Len(f.rows)}
         \cup UNION {{[f EXCEPT !.rows = Append(SubSeq(f.rows, 1, n), t)] :
                        t \in TornRows(f.rows[n + 1])} : n \in 0..(Len(f.rows) - 1)}

\* a write or the closing flush fails (storage unavailable or full) or the
\* program is interrupted: the exception leaves save_expenses, the file
\* keeps the bytes the storage took
Fail ==
    /\ pc # "idle"
    /\ pc' = "idle"
    /\ file' \in Prefixes(file)
    /\ out' = [out EXCEPT !.kind = "io_error"]
    /\ UNCHANGED <<deleted, recs, prev>>

NextSave ==
    \/ \E in \in AddInputs : BeginAdd(in)
    \/ \E id_input \in DeleteInputs : BeginDelete(id_input)
    \/ WriteHeader
    \/ WriteRow
    \/ Close
    \/ Fail

SpecSave == Init /\ [][NextSave]_vars

\* a save that runs to its end leaves the file save_expenses describes
SaveStepsAgree == (pc = "idle" /\ out.kind = "saved") => file = save_expenses(recs)

\* C4: when a save fails or is interrupted at any point, the file holds its
\* complete previous contents or the complete new record set, never a
\* truncated or partly written set of rows.
C4_SaveAllOrNothing ==
    (pc = "idle" /\ out.kind \in {"saved", "io_error"}) =>
        (file = prev \/ file = save_expenses(recs))

====
